---- MODULE Spec2Model ----
(***************************************************************************)
(* A model of src/lib/SunoApi.js: the credit-failover guard                *)
(* (licenseCheckDecorator), session initialisation (init, keepAlive), the  *)
(* generation operations and the wait_audio poller (generateSongs).        *)
(*                                                                         *)
(* Spec         the guard, run by top-level calls issued one after the     *)
(*              other                                                      *)
(* SpecRace     the guard, run by calls in flight at once                  *)
(* SpecSession  newSunoApi, init and keepAlive on one session, request by  *)
(*              request                                                    *)
(* SpecOps      one operation on an initialised session, await by await,   *)
(*              with the clock of the wait_audio poll                      *)
(* SpecProxy    the route handlers of src/lib/server.js                    *)
(* SpecTs       get() of src/lib/SunoApi.ts under change_Account           *)
(***************************************************************************)
EXTENDS Integers, Sequences, FiniteSets, TLC

\* ------------------------------------------------------------------ bounds
\* top-level calls issued, one after the other
NumCalls == 1
\* credential records the store can list
NumCands == 2
\* nesting of guard invocations a single call can reach through re-dispatch
MaxDepth == 3

\* ------------------------------------------------------- values and helpers
\* credits_left as a set: {} is a missing field (undefined), {n} the number n.
\* Every JS relational comparison with undefined is false.
Missing == {}
Num(n) == {n}

\* the failover threshold of licenseCheckDecorator
Threshold == 10

\* what the billing endpoint reports: nothing, just below the threshold, or
\* exactly the threshold
QuotaValues == {Missing, Num(Threshold - 1), Num(Threshold)}

\* credits.credits_left < 10 (line 318)
LowCreditsInclusive(c) == \E n \in c : n <= Threshold
LowCredits(c) == \E n \in c : n < Threshold

\* credits.credits_left >= 10 (line 325)
ViableAlways(c) == TRUE
ViableAbove(c) == \E n \in c : n > Threshold
Viable(c) == \E n \in c : n >= Threshold

\* upstream answers: the token renewal and the billing request
RenewResponses == {"fail", "jwt", "nojwt"}
BillingResponses == {[ok |-> FALSE, left |-> Missing]} \cup
                    {[ok |-> TRUE, left |-> q] : q \in QuotaValues}

Throw == [err |-> TRUE, credits_left |-> Missing]

\* get_credits(alive = false): keepAlive(false), then GET billing/info; the
\* result maps total_credits_left verbatim.  Either request failing throws.
get_creditsSwallow(renew, bill) ==
  IF renew = "fail" THEN Throw
  ELSE [err |-> FALSE, credits_left |-> bill.left]
get_credits(renew, bill) ==
  IF renew = "fail" THEN Throw
  ELSE IF ~bill.ok THEN Throw
  ELSE [err |-> FALSE, credits_left |-> bill.left]

\* the methods setupBindings replaces by their guarded wrapper
Decorated == {"generate", "concatenate", "custom_generate", "generateLyrics", "extendAudio"}

\* ------------------------------------------------- session initialisation
\* field values: "undefined", the empty string, or a non-empty string
Undefined == "undefined"
Truthy(x) == x \notin {Undefined, ""}

\* constructor(): every field undefined
NewSession == [clerkVersion |-> Undefined, sid |-> Undefined, currentToken |-> Undefined]

\* upstream answers; "fail" is a request that throws (network error, non-2xx
\* status, or a body without the enclosing object)
VersionResponses == {"fail", Undefined, "", "5.20.0"}
SessionResponses == {"fail", Undefined, "", "sess_1"}
TokenResponses == {"fail", Undefined, "jwt_1", "jwt_2"}

Ok(s) == [err |-> FALSE, s |-> s]
Err(s) == [err |-> TRUE, s |-> s]

\* getClerkLatestVersion: throws unless data.tags.latest is truthy
getClerkLatestVersionLenient(s, resp) ==
  IF resp = "fail" THEN Err(s)
  ELSE Ok([s EXCEPT !.clerkVersion = resp])
getClerkLatestVersion(s, resp) ==
  IF resp = "fail" \/ ~Truthy(resp) THEN Err(s)
  ELSE Ok([s EXCEPT !.clerkVersion = resp])

\* getAuthToken: throws unless data.response.last_active_session_id is truthy
getAuthToken(s, resp) ==
  IF resp = "fail" \/ ~Truthy(resp) THEN Err(s)
  ELSE Ok([s EXCEPT !.sid = resp])

\* if (!this.sid) throw (line 84)
HasSidAlways(s) == TRUE
HasSid(s) == Truthy(s.sid)

\* keepAlive, its final assignment: currentToken = renewResponse.data["jwt"],
\* whatever that is
keepAlive(s, resp) ==
  IF ~HasSid(s) \/ resp = "fail" THEN Err(s)
  ELSE Ok([s EXCEPT !.currentToken = resp])

\* init: the three steps in sequence, each awaited; the first error aborts
init(v, a, t) ==
  LET r1 == getClerkLatestVersion(NewSession, v) IN
  IF r1.err THEN r1
  ELSE LET r2 == getAuthToken(r1.s, a) IN
       IF r2.err THEN r2
       ELSE keepAlive(r2.s, t)

\* ------------------------------------------------------- the failover guard
VARIABLES
  calls,              \* the top-level calls: status, operation, guard frames
  sunoApi,            \* the module-level session handle (let sunoApi)
  activeSunoLicense,  \* the module-level active credential
  storeActive,        \* the active pointer persisted in the credential store
  started             \* the number of top-level calls issued so far

guardVars == <<calls, sunoApi, activeSunoLicense, storeActive, started>>

Calls == DOMAIN calls
Creds == 0..NumCands

\* a session: the credential it was initialised with and the place that
\* created it (number of the call, guard depth, loop index); <<0, 0, 0>> is
\* start-up
Session(cred, by) == [cred |-> cred, by |-> by]
Boot == Session(0, <<0, 0, 0>>)

\* the operations a caller invokes by name on a session
CallOps == {"generate", "extendAudio", "get"}

\* one invocation of the wrapper licenseCheckDecorator returns, on session s
Frame(s) ==
  [self |-> s, pc |-> "credits", first |-> Missing, n |-> 0, i |-> 0,
   reports |-> <<>>, promoted |-> 0, wrote |-> <<>>, reads |-> 0, hw |-> 0,
   lw |-> 0, inits |-> 0, opOn |-> <<>>, cur |-> s, failed |-> FALSE,
   stored |-> <<>>]

Depth(c) == Len(calls[c].frames)
Top(c) == calls[c].frames[Depth(c)]
SetTop(c, f) == [calls EXCEPT ![c].frames[Depth(c)] = f]
Running(c) == calls[c].st = "run"

\* method.apply(this, args) (lines 337 and 340)
InvokeMethodOnHandle(f) == [f EXCEPT !.pc = "method", !.opOn = Append(@, sunoApi)]
InvokeMethod(f) == [f EXCEPT !.pc = "method", !.opOn = Append(@, f.self)]

\* session[name](...args): the wrapper when setupBindings replaced the method
Invoke(call, s) ==
  IF call.op \in Decorated
  THEN [call EXCEPT !.frames = Append(@, Frame(s))]
  ELSE [call EXCEPT !.raw = Append(@, s)]

NewCall(k, op) == [st |-> "run", k |-> k, op |-> op, frames |-> <<>>, raw |-> <<>>]
NoCall == [st |-> "idle", k |-> 0, op |-> "generate", frames |-> <<>>, raw |-> <<>>]

\* a caller invokes an operation on the start-up session (the handle server.js
\* imported) or on the current module-level handle
Call(c) ==
  /\ calls[c].st # "run"
  /\ started < NumCalls
  /\ started' = started + 1
  /\ \E op \in CallOps, s \in {Boot, sunoApi} :
       calls' = [calls EXCEPT ![c] = Invoke(NewCall(started', op), s)]
  /\ UNCHANGED <<sunoApi, activeSunoLicense, storeActive>>

\* line 317-318, 340: let credits = await this.get_credits().  The upstream
\* stops reporting low credits to the wrappers nested MaxDepth deep.
GuardCredits(c) ==
  /\ Running(c) /\ Depth(c) > 0 /\ Top(c).pc = "credits"
  /\ \E renew \in RenewResponses, bill \in BillingResponses :
       LET out == get_credits(renew, bill)
           f == [Top(c) EXCEPT !.first = out.credits_left,
                               !.failed = (renew = "fail" \/ ~bill.ok)] IN
       IF out.err THEN calls' = [SetTop(c, f) EXCEPT ![c].st = "threw"]
       ELSE IF LowCredits(out.credits_left)
       THEN /\ Depth(c) < MaxDepth
            /\ calls' = SetTop(c, [f EXCEPT !.pc = "licKeys", !.reads = @ + 1])
       ELSE calls' = SetTop(c, InvokeMethod(f))
  /\ UNCHANGED <<sunoApi, activeSunoLicense, storeActive, started>>

\* the loop head of for (const lic of licKeys), and line 336-337 after it
NextCandidate(f) ==
  IF f.i < f.n
  THEN [f EXCEPT !.i = @ + 1, !.pc = "newSunoApi", !.inits = @ + 1]
  ELSE InvokeMethod(f)

\* line 319: const licKeys = await sheetService.getSunoLicenseKeys()
ReadStore(c) ==
  /\ Running(c) /\ Depth(c) > 0 /\ Top(c).pc = "licKeys"
  /\ \/ calls' = [calls EXCEPT ![c].st = "threw"]
     \/ \E n \in 0..NumCands :
          calls' = SetTop(c, NextCandidate([Top(c) EXCEPT !.n = n]))
  /\ UNCHANGED <<sunoApi, activeSunoLicense, storeActive, started>>

\* line 322 and the call of line 324: sunoApi = await newSunoApi(new_Cookie)
InitCandidate(c) ==
  /\ Running(c) /\ Depth(c) > 0 /\ Top(c).pc = "newSunoApi"
  /\ \E v \in VersionResponses, a \in SessionResponses, t \in TokenResponses :
       IF init(v, a, t).err
       THEN /\ calls' = [calls EXCEPT ![c].st = "threw"]
            /\ UNCHANGED sunoApi
       ELSE /\ sunoApi' = Session(Top(c).i, <<calls[c].k, Depth(c), Top(c).i>>)
            /\ calls' = SetTop(c, [Top(c) EXCEPT !.pc = "candCredits", !.hw = @ + 1,
                                              !.cur = sunoApi'])
  /\ UNCHANGED <<activeSunoLicense, storeActive, started>>

\* the credential store persists the pointer it is given
setSunoActiveLicense(account, licenseKey) == account

\* line 325-328: the candidate is viable; activeSunoLicense = lic, then the
\* store write is issued with lic.account and lic.licenseKey
Promote(f) ==
  [f EXCEPT !.pc = "setActive", !.promoted = f.i, !.lw = @ + 1,
            !.wrote = Append(@, <<f.i, f.i>>)]

\* line 324-325, 331-337: credits = await (await sunoApi).get_credits()
CandidateCredits(c) ==
  /\ Running(c) /\ Depth(c) > 0 /\ Top(c).pc = "candCredits"
  /\ \E renew \in RenewResponses, bill \in BillingResponses :
       LET out == get_credits(renew, bill)
           f == [Top(c) EXCEPT !.reports = Append(@, out.credits_left)] IN
       IF out.err
       THEN /\ calls' = [calls EXCEPT ![c].st = "threw"]
            /\ UNCHANGED activeSunoLicense
       ELSE IF Viable(out.credits_left)
       THEN /\ calls' = SetTop(c, Promote(f))
            /\ activeSunoLicense' = f.i
       ELSE /\ calls' = SetTop(c, NextCandidate(f))
            /\ UNCHANGED activeSunoLicense
  /\ UNCHANGED <<sunoApi, storeActive, started>>

\* line 328-330: the store write completes, then the operation is looked up
\* by method.name on the session the module-level handle names now
StoreWrite(c) ==
  /\ Running(c) /\ Depth(c) > 0 /\ Top(c).pc = "setActive"
  /\ \/ /\ calls' = [calls EXCEPT ![c].st = "threw"]
        /\ UNCHANGED storeActive
     \/ LET w == Top(c).wrote[Len(Top(c).wrote)] IN
        /\ storeActive' = setSunoActiveLicense(w[1], w[2])
        /\ calls' = [SetTop(c, [Top(c) EXCEPT !.pc = "dispatch",
                                              !.stored = Append(@, storeActive')])
                        EXCEPT ![c] = Invoke(@, sunoApi)]
  /\ UNCHANGED <<sunoApi, activeSunoLicense, started>>

\* the wrapped operation settles, and with it every enclosing wrapper
MethodDone(c) ==
  /\ Running(c)
  /\ \/ Depth(c) > 0 /\ Top(c).pc = "method"
     \/ calls[c].raw # <<>>
  /\ \E st \in {"returned", "threw"} : calls' = [calls EXCEPT ![c].st = st]
  /\ UNCHANGED <<sunoApi, activeSunoLicense, storeActive, started>>

\* the module has loaded and newSunoApi('') has succeeded
GuardInit ==
  /\ calls = [c \in {1} |-> NoCall]
  /\ started = 0
  /\ sunoApi = Boot
  /\ activeSunoLicense = Boot.cred
  /\ storeActive = Boot.cred

\* requests in flight at once
NumRacers == 2

\* a route handler calls generate on the session it imported at start-up
\* (server.js line 4 and 29-31) while other calls are in flight
CallRace(c) ==
  /\ calls[c].st = "idle"
  /\ started' = started + 1
  /\ calls' = [calls EXCEPT ![c] = Invoke(NewCall(c, "generate"), Boot)]
  /\ UNCHANGED <<sunoApi, activeSunoLicense, storeActive>>

\* the module has loaded, newSunoApi('') has succeeded, no request yet
RaceInit ==
  /\ calls = [c \in 1..NumRacers |-> NoCall]
  /\ started = 0
  /\ sunoApi = Boot
  /\ activeSunoLicense = Boot.cred
  /\ storeActive = Boot.cred

\* ------------------------------------------ newSunoApi and keepAlive in steps
VARIABLES
  ses,       \* the SunoApi object under construction: its three fields
  ipc,       \* where newSunoApi / keepAlive stands
  cookie,    \* the cookie argument of newSunoApi (0 is the empty string)
  reqs,      \* the upstream requests sent so far, in order
  ka,        \* the keepAlive in flight after init: isWait and the answer held
  renewals   \* keepAlive calls made on the initialised session

initVars == <<ses, ipc, cookie, reqs, ka, renewals>>

\* keepAlive calls made on a session after init returned it
MaxRenewals == 2

NoKeepAlive == [isWait |-> FALSE, resp |-> Undefined, home |-> "ready", out |-> "none"]

\* nothing constructed yet
SessionIdle ==
  /\ ses = NewSession /\ ipc = "idle" /\ cookie = 0 /\ reqs = <<>>
  /\ ka = NoKeepAlive /\ renewals = 0

\* line 345-353: newSunoApi(cookie); an empty cookie asks the store first
NewSunoApiCall ==
  /\ ipc = "idle"
  /\ \E k \in Creds :
       /\ cookie' = k
       /\ IF k = 0
          THEN ipc' = "active" /\ reqs' = reqs
          ELSE ipc' = "version" /\ reqs' = Append(reqs, "version")
  /\ ses' = NewSession
  /\ UNCHANGED <<ka, renewals, activeSunoLicense, storeActive>>

\* line 347-349: activeSunoLicense = await sheetService.getSunoActiveLicense()
ActiveLicenseAnswer ==
  /\ ipc = "active"
  /\ \/ /\ ipc' = "failed"
        /\ UNCHANGED <<activeSunoLicense, cookie, reqs>>
     \/ /\ activeSunoLicense' = storeActive
        /\ cookie' = storeActive
        /\ ipc' = "version" /\ reqs' = Append(reqs, "version")
  /\ UNCHANGED <<ses, ka, renewals, storeActive>>

\* line 59 and 65-72
VersionAnswer ==
  /\ ipc = "version"
  /\ \E resp \in VersionResponses :
       LET r == getClerkLatestVersion(ses, resp) IN
       /\ ses' = r.s
       /\ IF r.err THEN ipc' = "failed" /\ reqs' = reqs
          ELSE ipc' = "session" /\ reqs' = Append(reqs, "client")
  /\ UNCHANGED <<cookie, ka, renewals, activeSunoLicense, storeActive>>

\* line 60 and 74-81; keepAlive() is entered on success and sends its request
\* when this.sid is set
SessionAnswer ==
  /\ ipc = "session"
  /\ \E resp \in SessionResponses :
       LET r == getAuthToken(ses, resp) IN
       /\ ses' = r.s
       /\ IF r.err THEN ipc' = "failed" /\ reqs' = reqs
          ELSE IF ~Truthy(r.s.sid) THEN ipc' = "failed" /\ reqs' = reqs
          ELSE ipc' = "token" /\ reqs' = Append(reqs, "tokens")
  /\ UNCHANGED <<cookie, ka, renewals, activeSunoLicense, storeActive>>

\* line 61-62 and 88-94: the first renewal answers; init returns this
TokenAnswer ==
  /\ ipc = "token"
  /\ \E resp \in TokenResponses :
       LET r == keepAlive(ses, resp) IN
       /\ ses' = r.s
       /\ ipc' = IF r.err THEN "failed" ELSE "ready"
  /\ UNCHANGED <<cookie, reqs, ka, renewals, activeSunoLicense, storeActive>>


\* line 83-88: keepAlive(isWait) on a constructed session; without a session
\* id it throws before any request
KeepAliveCall ==
  /\ ipc \in {"ready", "failed"}
  /\ renewals < MaxRenewals
  /\ renewals' = renewals + 1
  /\ \E w \in BOOLEAN :
       IF ~HasSid(ses)
       THEN /\ ka' = [isWait |-> w, resp |-> Undefined, home |-> ipc, out |-> "threw"]
            /\ UNCHANGED <<ipc, reqs>>
       ELSE /\ ka' = [isWait |-> w, resp |-> Undefined, home |-> ipc, out |-> "none"]
            /\ ipc' = "renewing"
            /\ reqs' = Append(reqs, "tokens")
  /\ UNCHANGED <<ses, cookie, activeSunoLicense, storeActive>>

\* line 88-94: the renewal answers; with isWait the answer is held over the
\* sleep and assigned after it
KeepAliveAnswer ==
  /\ ipc = "renewing"
  /\ \E resp \in TokenResponses :
       IF keepAlive(ses, resp).err
       THEN /\ ka' = [ka EXCEPT !.out = "threw"]
            /\ ipc' = ka.home
            /\ ses' = ses
       ELSE IF ka.isWait
       THEN /\ ka' = [ka EXCEPT !.resp = resp]
            /\ ipc' = "sleeping"
            /\ ses' = ses
       ELSE /\ ka' = [ka EXCEPT !.resp = resp, !.out = "ok"]
            /\ ipc' = ka.home
            /\ ses' = keepAlive(ses, resp).s
  /\ UNCHANGED <<cookie, reqs, renewals, activeSunoLicense, storeActive>>

\* line 91-94: sleep(1, 2) is over
KeepAliveWake ==
  /\ ipc = "sleeping"
  /\ ses' = keepAlive(ses, ka.resp).s
  /\ ka' = [ka EXCEPT !.out = "ok"]
  /\ ipc' = ka.home
  /\ UNCHANGED <<cookie, reqs, renewals, activeSunoLicense, storeActive>>

\* ------------------------------------- the operations and the wait_audio poll
VARIABLES
  op,            \* the operation running: its name and wait_audio
  opc,           \* the await the operation stands at
  prev,          \* the upstream request sent last
  reqPrev,       \* what prev was when the operation sent its own request
  renewedAfter,  \* a keepAlive(true) has completed after that request
  clips,         \* the status of each clip of the submission response
  now,           \* Date.now(), in ms, counted from the start of the poll
  startTime,     \* startTime of line 176; -1 while there is no poll
  lastResponse,  \* lastResponse of line 177
  seen,          \* the snapshots get() returned: none yet, or the latest
  result,        \* what the operation returned
  submits,       \* the operation's own requests (submit, concat, lyrics) sent
  fed,           \* a feed fetch has been sent
  polls,         \* the lyrics status requests sent
  pollGap        \* ms from the latest status answer to the request after it

sentVars == <<submits, fed, polls, pollGap>>

opsVars == <<op, opc, prev, reqPrev, renewedAfter, clips, now, startTime,
             lastResponse, seen, result, sentVars>>

\* clips in one submission response
NumJobs == 2
\* the slowest answer of a request that has no timeout, in seconds
MaxLatency == 2

\* status requests one generateLyrics call sends
MaxPolls == 30

\* while (Date.now() - startTime < 100000)
PollWindowMs == 100000
\* the timeout of the feed request of get(), in ms
FeedTimeoutMs == 3000

Statuses == {"queued", "streaming", "complete", "error"}
Snapshots(n) == UNION {[1..k -> Statuses] : k \in 0..n}

\* sleep(x, y): x seconds when y is x, else a whole number of seconds in
\* [min, max]; the timeouts in ms
sleep(x, y) ==
  IF y = x THEN {x * 1000}
  ELSE LET min == IF x < y THEN x ELSE y
           max == IF x < y THEN y ELSE x
       IN {s * 1000 : s \in min..max}

\* how long a request without a timeout takes to answer
Latencies == {s * 1000 : s \in 0..MaxLatency}
\* the feed request answers within its timeout or throws
FeedLatencies == {d \in Latencies : d <= FeedTimeoutMs}

OpNames == Decorated
NoOp == [name |-> "generate", wait |-> FALSE]

OpsIdle ==
  /\ op = NoOp /\ opc = "idle" /\ prev = "none" /\ reqPrev = "none"
  /\ renewedAfter = FALSE /\ clips = <<>> /\ now = 0 /\ startTime = -1
  /\ lastResponse = <<>> /\ seen = <<>> /\ result = <<>>
  /\ submits = 0 /\ fed = FALSE /\ polls = 0 /\ pollGap = -1

\* line 181-184
allCompletedStrict(response) ==
  \A i \in 1..Len(response) : response[i] = "complete"
allCompleted(response) ==
  \A i \in 1..Len(response) : response[i] \in {"streaming", "complete"}
anyError(response) ==
  \E i \in 1..Len(response) : response[i] = "error"
allError(response) ==
  \A i \in 1..Len(response) : response[i] = "error"

Throws == /\ opc' = "threw"
          /\ UNCHANGED <<op, prev, reqPrev, renewedAfter, clips, now, startTime,
                         lastResponse, seen, result, sentVars>>

\* the wrapper has taken the fast path (line 317, 340): its quota query was
\* the last request, and the method starts up to its first await
Begin ==
  /\ opc = "idle"
  /\ \E name \in OpNames, w \in BOOLEAN :
       /\ w => name \in {"generate", "custom_generate"}
       /\ op' = [name |-> name, wait |-> w]
       /\ IF name = "extendAudio"
          THEN /\ opc' = "extend_post" /\ prev' = "submit" /\ reqPrev' = "billing"
               /\ submits' = submits + 1
          ELSE /\ submits' = submits
               /\ opc' = CASE name = "generate" -> "gen_ka"
                           [] name = "custom_generate" -> "songs_ka"
                           [] name = "concatenate" -> "concat_ka"
                           [] OTHER -> "lyrics_ka"
               /\ prev' = "renew" /\ reqPrev' = "none"
  /\ UNCHANGED <<renewedAfter, clips, now, startTime, lastResponse, seen, result,
                 fed, polls, pollGap>>

\* line 98-100: generate's keepAlive(false) answers; generateSongs starts
GenKeepAlive ==
  /\ opc = "gen_ka"
  /\ \/ Throws
     \/ /\ opc' = "songs_ka" /\ prev' = "renew"
        /\ UNCHANGED <<op, reqPrev, renewedAfter, clips, now, startTime,
                       lastResponse, seen, result, sentVars>>

\* line 150-170: generateSongs' keepAlive(false) answers; the submission is sent
SongsKeepAlive ==
  /\ opc = "songs_ka"
  /\ \/ Throws
     \/ /\ opc' = "songs_post" /\ reqPrev' = prev /\ prev' = "submit"
        /\ submits' = submits + 1
        /\ UNCHANGED <<op, renewedAfter, clips, now, startTime, lastResponse,
                       seen, result, fed, polls, pollGap>>

\* line 179, 180 and 192: the loop condition at time t; get() starts with a
\* keepAlive(false), and past the window lastResponse is returned
LoopHeadEmpty(t, start, last) ==
  IF t - start < PollWindowMs
  THEN opc' = "poll_ka" /\ prev' = "renew" /\ result' = result
  ELSE opc' = "done" /\ prev' = prev /\ result' = <<>>
LoopHead(t, start, last) ==
  IF t - start < PollWindowMs
  THEN opc' = "poll_ka" /\ prev' = "renew" /\ result' = result
  ELSE opc' = "done" /\ prev' = prev /\ result' = last

\* line 164-178, 194: the submission answers.  With wait_audio only the ids
\* of the clips are used (songIds), so their statuses are not kept.
SongsPost ==
  /\ opc = "songs_post"
  /\ \/ Throws
     \/ \E k \in 1..NumJobs :
          IF op.wait
          THEN /\ clips' = [i \in 1..k |-> "queued"]
               /\ startTime' = now /\ lastResponse' = <<>>
               /\ opc' = "poll_sleep0"
               /\ UNCHANGED <<op, prev, reqPrev, renewedAfter, now, seen, result,
                              sentVars>>
          ELSE /\ \E cs \in [1..k -> Statuses] : clips' = cs
               /\ opc' = "songs_kaw" /\ prev' = "renewWait"
               /\ UNCHANGED <<op, reqPrev, renewedAfter, now, startTime,
                              lastResponse, seen, result, sentVars>>

\* line 195-211: one entry per clip of the submission response, its status
\* copied from the response
SubmittedEntriesQueued(cs) == [i \in 1..Len(cs) |-> "queued"]
SubmittedEntries(cs) == [i \in 1..Len(cs) |-> cs[i]]

\* line 194-211: keepAlive(true) answers and has slept; the clips are returned
SongsKeepAliveWait ==
  /\ opc = "songs_kaw"
  /\ \/ Throws
     \/ /\ opc' = "done" /\ renewedAfter' = TRUE
        /\ result' = SubmittedEntries(clips)
        /\ UNCHANGED <<op, prev, reqPrev, clips, now, startTime, lastResponse, seen,
                       sentVars>>

\* line 178-180: sleep(5, 5) is over
PollSleep0 ==
  /\ opc = "poll_sleep0"
  /\ \E d \in sleep(5, 5) :
       /\ now' = now + d
       /\ LoopHead(now', startTime, lastResponse)
  /\ UNCHANGED <<op, reqPrev, renewedAfter, clips, startTime, lastResponse, seen,
                 sentVars>>

\* line 258-266: the keepAlive(false) of get() answers; the feed request is sent
PollKeepAlive ==
  /\ opc = "poll_ka"
  /\ \/ Throws
     \/ \E d \in Latencies :
          /\ now' = now + d
          /\ opc' = "poll_feed" /\ prev' = "feed" /\ fed' = TRUE
          /\ UNCHANGED <<op, reqPrev, renewedAfter, clips, startTime,
                         lastResponse, seen, result, submits, polls, pollGap>>

\* line 180-189, 264-287: the feed answers within its timeout, one entry per
\* audio it lists
PollFeed ==
  /\ opc = "poll_feed"
  /\ \/ Throws
     \/ \E d \in FeedLatencies, response \in Snapshots(Len(clips)) :
          /\ now' = now + d
          /\ seen' = <<response>>
          /\ IF allCompleted(response) \/ allError(response)
             THEN opc' = "done" /\ result' = response /\ lastResponse' = lastResponse
             ELSE opc' = "poll_sleep" /\ result' = result /\ lastResponse' = response
          /\ UNCHANGED <<op, prev, reqPrev, renewedAfter, clips, startTime,
                         sentVars>>

\* line 189-190: sleep(3, 6) is over; keepAlive(true) sends its request
PollSleep ==
  /\ opc = "poll_sleep"
  /\ \E d \in sleep(3, 6) :
       /\ now' = now + d
       /\ opc' = "poll_kaw" /\ prev' = "renewWait"
  /\ UNCHANGED <<op, reqPrev, renewedAfter, clips, startTime, lastResponse,
                 seen, result, sentVars>>

\* line 190, 88-94: the renewal answers, sleep(1, 2) passes, and the loop
\* condition is evaluated again
PollKeepAliveWait ==
  /\ opc = "poll_kaw"
  /\ \/ Throws
     \/ \E d \in Latencies, e \in sleep(1, 2) :
          /\ now' = now + d + e
          /\ renewedAfter' = TRUE
          /\ LoopHead(now', startTime, lastResponse)
          /\ UNCHANGED <<op, reqPrev, clips, startTime, lastResponse, seen,
                         sentVars>>

\* line 116-125: concatenate's keepAlive(false) answers; the request is sent
ConcatKeepAlive ==
  /\ opc = "concat_ka"
  /\ \/ Throws
     \/ /\ opc' = "concat_post" /\ reqPrev' = prev /\ prev' = "submit"
        /\ submits' = submits + 1
        /\ UNCHANGED <<op, renewedAfter, clips, now, startTime, lastResponse,
                       seen, result, fed, polls, pollGap>>

\* line 126-129: concatenate returns response.data
ConcatPost ==
  /\ opc = "concat_post"
  /\ \/ Throws
     \/ /\ opc' = "done"
        /\ UNCHANGED <<op, prev, reqPrev, renewedAfter, clips, now, startTime,
                       lastResponse, seen, result, sentVars>>

\* line 216-220: generateLyrics' keepAlive(false) answers; the request is sent
LyricsKeepAlive ==
  /\ opc = "lyrics_ka"
  /\ \/ Throws
     \/ /\ opc' = "lyrics_post" /\ reqPrev' = prev /\ prev' = "submit"
        /\ submits' = submits + 1
        /\ UNCHANGED <<op, renewedAfter, clips, now, startTime, lastResponse,
                       seen, result, fed, polls, pollGap>>

\* line 221-225: the id is known; the first status request is sent
LyricsPost ==
  /\ opc = "lyrics_post"
  /\ \/ Throws
     \/ /\ opc' = "lyrics_get" /\ prev' = "lyrics" /\ polls' = polls + 1
        /\ UNCHANGED <<op, reqPrev, renewedAfter, clips, now, startTime,
                       lastResponse, seen, result, submits, fed, pollGap>>

LyricsStatuses == {"running", "complete", "error"}

\* line 226: the loop ends when lyricsResponse.data.status === "complete"
LyricsDoneOrError(status) == status \in {"complete", "error"}
LyricsDone(status) == status = "complete"

\* line 226-227, 233: a status answers; anything but complete sleeps 2 s
LyricsGet ==
  /\ opc = "lyrics_get"
  /\ \/ Throws
     \/ \E d \in Latencies, status \in LyricsStatuses :
          /\ now' = now + d
          /\ seen' = <<<<status>>>>
          /\ IF LyricsDone(status)
             THEN opc' = "done" /\ result' = <<status>>
             ELSE opc' = "lyrics_sleep" /\ result' = result
          /\ UNCHANGED <<op, prev, reqPrev, renewedAfter, clips, startTime,
                         lastResponse, sentVars>>

\* line 227-230: sleep(2) is over (one argument: x * 1000 ms, as when y is
\* x); the next status request is sent
LyricsSleep ==
  /\ opc = "lyrics_sleep"
  /\ polls < MaxPolls
  /\ \E d \in sleep(2, 2) :
       /\ now' = now + d
       /\ pollGap' = now' - now
  /\ polls' = polls + 1
  /\ opc' = "lyrics_get" /\ prev' = "lyrics"
  /\ UNCHANGED <<op, reqPrev, renewedAfter, clips, startTime, lastResponse,
                 seen, result, submits, fed>>

\* line 237-249: extendAudio returns response.data
ExtendPost ==
  /\ opc = "extend_post"
  /\ \/ Throws
     \/ /\ opc' = "done"
        /\ UNCHANGED <<op, prev, reqPrev, renewedAfter, clips, now, startTime,
                       lastResponse, seen, result, sentVars>>

\* ------------------------------------------- server.js: the route handlers
VARIABLES
  boot,      \* the promise server.js imported as sunoApi: resolved or rejected
  handler,   \* the handler of the request being served
  served     \* the requests received so far

proxyVars == <<boot, handler, served>>

\* requests the server receives
MaxRequests == 2

Routes == {"clip", "generate", "chat", "custom_generate", "extend_audio",
           "generate_lyrics", "get", "get_limit"}

\* the request as the handler reads it: "ok" is well formed; "empty" has no
\* user message (chat) or no ids (get); "bad" makes the synchronous part
\* throw (no body to destructure, messages not iterable, ids not a string)
Shapes == {"ok", "empty", "bad"}

\* what the core operation settles with: a value, an empty list, or an error
Outcomes == {"value", "empty", "threw"}

NoHandler ==
  [route |-> "clip", shape |-> "ok", pc |-> "idle", sent |-> <<>>,
   escaped |-> FALSE, threw |-> FALSE, core |-> "none"]

ProxyIdle == boot = "resolved" /\ handler = NoHandler /\ served = 0

\* res.json(body): one response, with the default status
json(h, body) ==
  [h EXCEPT !.sent = Append(@, [status |-> 200, body |-> body]), !.pc = "end"]

\* catch (e) { console.log(...); res.json({ error: e }) }
catchRethrow(h) == [h EXCEPT !.escaped = TRUE, !.pc = "end"]
catch(h) == json(h, "error")

\* express calls the handler of the route; a process that ended on the
\* unhandled rejection of start-up receives nothing
Receive ==
  /\ boot # "exited"
  /\ handler.pc \in {"idle", "end"}
  /\ served < MaxRequests
  /\ served' = served + 1
  /\ \E r \in Routes, s \in Shapes :
       handler' = [NoHandler EXCEPT !.route = r, !.shape = s, !.pc = "try"]
  /\ UNCHANGED boot

\* the try block up to its first await: the destructuring of the request;
\* chat looks for the user message and answers by itself when there is none
\* (line 51-54); extend_audio reads the undeclared name model (line 113)
Prologue ==
  /\ handler.pc = "try"
  /\ handler' =
       CASE handler.route = "extend_audio" -> [handler EXCEPT !.pc = "catch"]
         [] handler.route \in {"clip", "get_limit"} -> [handler EXCEPT !.pc = "session"]
         [] handler.shape = "bad" -> [handler EXCEPT !.pc = "catch"]
         [] handler.route = "chat" /\ handler.shape = "empty" -> json(handler, "error")
         [] OTHER -> [handler EXCEPT !.pc = "session"]
  /\ UNCHANGED <<boot, served>>

\* await sunoApi: the promise of start-up (SunoApi.js line 358) settles the
\* same way at every await; its rejection is thrown into the try block
awaitSessionRetry(h, b) == [h EXCEPT !.pc = "core"]
awaitSession(h, b) ==
  IF b = "resolved" THEN [h EXCEPT !.pc = "core"]
  ELSE [h EXCEPT !.pc = "catch", !.threw = TRUE]

AwaitSession ==
  /\ handler.pc = "session"
  /\ handler' = awaitSession(handler, boot)
  /\ UNCHANGED <<boot, served>>

\* the core operation settles; chat formats audioInfo[0] (line 59-60), which
\* throws on an empty list; then res.json of the value
CoreSettles ==
  /\ handler.pc = "core"
  /\ \E out \in Outcomes :
       LET h == [handler EXCEPT !.core = out] IN
       handler' =
         IF out = "threw" THEN [h EXCEPT !.pc = "catch", !.threw = TRUE]
         ELSE IF h.route = "chat" /\ out = "empty" THEN [h EXCEPT !.pc = "catch"]
         ELSE json(h, "data")
  /\ UNCHANGED <<boot, served>>

\* the catch block of the handler
Catch ==
  /\ handler.pc = "catch"
  /\ handler' = catch(handler)
  /\ UNCHANGED <<boot, served>>

\* ------------------------------- SunoApi.ts: get() guarded by change_Account
VARIABLES
  ts         \* one call of get(songIds): position, quota reports, sessions used

tsVars == <<ts>>

\* the threshold of change_Account
TsThreshold == 44

TsQuotaValues == {Missing, Num(TsThreshold - 1), Num(TsThreshold)}
TsBillingResponses == {[ok |-> FALSE, left |-> Missing]} \cup
                      {[ok |-> TRUE, left |-> q] : q \in TsQuotaValues}

\* credits.credits_left < 44 (line 447)
LowCreditsTs(c) == \E n \in c : n < TsThreshold

NoTsCall ==
  [pc |-> "idle", credits |-> Missing, credits2 |-> Missing, ranOn |-> <<>>,
   result |-> <<>>]

TsIdle == ts = NoTsCall

\* line 376-378, 444: get(songIds) enters change_Account, which sends its
\* quota query
TsGet ==
  /\ ts.pc = "idle"
  /\ ts' = [ts EXCEPT !.pc = "credits"]

\* line 444-465: the quota of this session answers; with credits_left < 44
\* a session is constructed on the built-in cookie, else apiCall(this)
TsCredits ==
  /\ ts.pc = "credits"
  /\ \E renew \in RenewResponses, bill \in TsBillingResponses :
       LET out == get_credits(renew, bill) IN
       ts' = IF out.err THEN [ts EXCEPT !.pc = "threw"]
             ELSE IF LowCreditsTs(out.credits_left)
             THEN [ts EXCEPT !.pc = "init", !.credits = out.credits_left]
             ELSE [ts EXCEPT !.pc = "keepAlive", !.credits = out.credits_left,
                             !.ranOn = Append(@, "this")]

\* line 452-458: await sunoApi.init(new_Cookie); the quota query is sent
TsInit ==
  /\ ts.pc = "init"
  /\ \E v \in VersionResponses, a \in SessionResponses, t \in TokenResponses :
       ts' = IF init(v, a, t).err THEN [ts EXCEPT !.pc = "threw"]
             ELSE [ts EXCEPT !.pc = "credits2"]

\* line 458-462: credits2 answers and is logged; apiCall(sunoApi)
TsCredits2 ==
  /\ ts.pc = "credits2"
  /\ \E renew \in RenewResponses, bill \in TsBillingResponses :
       LET out == get_credits(renew, bill) IN
       ts' = IF out.err THEN [ts EXCEPT !.pc = "threw"]
             ELSE [ts EXCEPT !.pc = "keepAlive", !.credits2 = out.credits_left,
                             !.ranOn = Append(@, "alternate")]

\* line 380-389: context.keepAlive(false) answers; the feed request is sent
TsKeepAlive ==
  /\ ts.pc = "keepAlive"
  /\ \E renew \in RenewResponses :
       ts' = IF renew = "fail" THEN [ts EXCEPT !.pc = "threw"]
             ELSE [ts EXCEPT !.pc = "feed"]

\* line 386-408: the feed answers or fails; one entry per audio
TsFeed ==
  /\ ts.pc = "feed"
  /\ \/ ts' = [ts EXCEPT !.pc = "threw"]
     \/ \E response \in Snapshots(NumJobs) :
          ts' = [ts EXCEPT !.pc = "done", !.result = response]

\* ------------------------------------------------------- the specifications
vars == <<guardVars, initVars, opsVars, proxyVars, tsVars>>

\* the guard, run by top-level calls
Init == GuardInit /\ SessionIdle /\ OpsIdle /\ ProxyIdle /\ TsIdle

Next ==
  \/ \E c \in Calls : Call(c) /\ UNCHANGED <<initVars, opsVars, proxyVars, tsVars>>
  \/ \E c \in Calls : GuardCredits(c) /\ UNCHANGED <<initVars, opsVars, proxyVars, tsVars>>
  \/ \E c \in Calls : ReadStore(c) /\ UNCHANGED <<initVars, opsVars, proxyVars, tsVars>>
  \/ \E c \in Calls : InitCandidate(c) /\ UNCHANGED <<initVars, opsVars, proxyVars, tsVars>>
  \/ \E c \in Calls : CandidateCredits(c) /\ UNCHANGED <<initVars, opsVars, proxyVars, tsVars>>
  \/ \E c \in Calls : StoreWrite(c) /\ UNCHANGED <<initVars, opsVars, proxyVars, tsVars>>
  \/ \E c \in Calls : MethodDone(c) /\ UNCHANGED <<initVars, opsVars, proxyVars, tsVars>>

Spec == Init /\ [][Next]_vars

\* newSunoApi and keepAlive on one session, request by request
InitSession ==
  /\ calls = [c \in {1} |-> NoCall] /\ started = 0 /\ sunoApi = Boot
  /\ activeSunoLicense = 0 /\ storeActive \in Creds \ {0}
  /\ SessionIdle /\ OpsIdle /\ ProxyIdle /\ TsIdle

NextSession ==
  \/ NewSunoApiCall /\ UNCHANGED <<calls, started, sunoApi, opsVars, proxyVars, tsVars>>
  \/ ActiveLicenseAnswer /\ UNCHANGED <<calls, started, sunoApi, opsVars, proxyVars, tsVars>>
  \/ VersionAnswer /\ UNCHANGED <<calls, started, sunoApi, opsVars, proxyVars, tsVars>>
  \/ SessionAnswer /\ UNCHANGED <<calls, started, sunoApi, opsVars, proxyVars, tsVars>>
  \/ TokenAnswer /\ UNCHANGED <<calls, started, sunoApi, opsVars, proxyVars, tsVars>>
  \/ KeepAliveCall /\ UNCHANGED <<calls, started, sunoApi, opsVars, proxyVars, tsVars>>
  \/ KeepAliveAnswer /\ UNCHANGED <<calls, started, sunoApi, opsVars, proxyVars, tsVars>>
  \/ KeepAliveWake /\ UNCHANGED <<calls, started, sunoApi, opsVars, proxyVars, tsVars>>

SpecSession == InitSession /\ [][NextSession]_vars

\* one operation on an initialised session, await by await
InitOps == GuardInit /\ SessionIdle /\ OpsIdle /\ ProxyIdle /\ TsIdle

NextOps ==
  \/ Begin /\ UNCHANGED <<guardVars, initVars, proxyVars, tsVars>>
  \/ GenKeepAlive /\ UNCHANGED <<guardVars, initVars, proxyVars, tsVars>>
  \/ SongsKeepAlive /\ UNCHANGED <<guardVars, initVars, proxyVars, tsVars>>
  \/ SongsPost /\ UNCHANGED <<guardVars, initVars, proxyVars, tsVars>>
  \/ SongsKeepAliveWait /\ UNCHANGED <<guardVars, initVars, proxyVars, tsVars>>
  \/ PollSleep0 /\ UNCHANGED <<guardVars, initVars, proxyVars, tsVars>>
  \/ PollKeepAlive /\ UNCHANGED <<guardVars, initVars, proxyVars, tsVars>>
  \/ PollFeed /\ UNCHANGED <<guardVars, initVars, proxyVars, tsVars>>
  \/ PollSleep /\ UNCHANGED <<guardVars, initVars, proxyVars, tsVars>>
  \/ PollKeepAliveWait /\ UNCHANGED <<guardVars, initVars, proxyVars, tsVars>>
  \/ ConcatKeepAlive /\ UNCHANGED <<guardVars, initVars, proxyVars, tsVars>>
  \/ ConcatPost /\ UNCHANGED <<guardVars, initVars, proxyVars, tsVars>>
  \/ LyricsKeepAlive /\ UNCHANGED <<guardVars, initVars, proxyVars, tsVars>>
  \/ LyricsPost /\ UNCHANGED <<guardVars, initVars, proxyVars, tsVars>>
  \/ LyricsGet /\ UNCHANGED <<guardVars, initVars, proxyVars, tsVars>>
  \/ LyricsSleep /\ UNCHANGED <<guardVars, initVars, proxyVars, tsVars>>
  \/ ExtendPost /\ UNCHANGED <<guardVars, initVars, proxyVars, tsVars>>

SpecOps == InitOps /\ [][NextOps]_vars

\* the route handlers of server.js; start-up has succeeded, or it has failed
\* and the runtime kept the process or ended it on the unhandled rejection
InitProxy ==
  /\ GuardInit /\ SessionIdle /\ OpsIdle /\ TsIdle
  /\ boot \in {"resolved", "rejected", "exited"}
  /\ handler = NoHandler /\ served = 0

NextProxy ==
  \/ Receive /\ UNCHANGED <<guardVars, initVars, opsVars, tsVars>>
  \/ Prologue /\ UNCHANGED <<guardVars, initVars, opsVars, tsVars>>
  \/ AwaitSession /\ UNCHANGED <<guardVars, initVars, opsVars, tsVars>>
  \/ CoreSettles /\ UNCHANGED <<guardVars, initVars, opsVars, tsVars>>
  \/ Catch /\ UNCHANGED <<guardVars, initVars, opsVars, tsVars>>

SpecProxy == InitProxy /\ [][NextProxy]_vars

\* get() of SunoApi.ts under change_Account
InitTs == GuardInit /\ SessionIdle /\ OpsIdle /\ ProxyIdle /\ TsIdle

NextTs ==
  \/ TsGet /\ UNCHANGED <<guardVars, initVars, opsVars, proxyVars>>
  \/ TsCredits /\ UNCHANGED <<guardVars, initVars, opsVars, proxyVars>>
  \/ TsInit /\ UNCHANGED <<guardVars, initVars, opsVars, proxyVars>>
  \/ TsCredits2 /\ UNCHANGED <<guardVars, initVars, opsVars, proxyVars>>
  \/ TsKeepAlive /\ UNCHANGED <<guardVars, initVars, opsVars, proxyVars>>
  \/ TsFeed /\ UNCHANGED <<guardVars, initVars, opsVars, proxyVars>>

SpecTs == InitTs /\ [][NextTs]_vars

\* the guard, run by calls whose awaits interleave.  The upstream and the
\* store are healthy while they race: no request fails, every billing answer
\* carries the credits field, and the store lists all its candidates.
Healthy ==
  \A c \in Calls :
    /\ calls[c].st # "threw"
    /\ \A d \in 1..Depth(c) :
         LET f == calls[c].frames[d] IN
         /\ f.pc # "credits" => f.first # Missing
         /\ f.pc \notin {"credits", "licKeys"} /\ LowCredits(f.first) => f.n = NumCands
         /\ \A j \in 1..Len(f.reports) : f.reports[j] # Missing

InitRace == RaceInit /\ SessionIdle /\ OpsIdle /\ ProxyIdle /\ TsIdle

NextRace ==
  \/ \E c \in Calls : CallRace(c) /\ Healthy' /\ UNCHANGED <<initVars, opsVars, proxyVars, tsVars>>
  \/ \E c \in Calls : GuardCredits(c) /\ Healthy' /\ UNCHANGED <<initVars, opsVars, proxyVars, tsVars>>
  \/ \E c \in Calls : ReadStore(c) /\ Healthy' /\ UNCHANGED <<initVars, opsVars, proxyVars, tsVars>>
  \/ \E c \in Calls : InitCandidate(c) /\ Healthy' /\ UNCHANGED <<initVars, opsVars, proxyVars, tsVars>>
  \/ \E c \in Calls : CandidateCredits(c) /\ Healthy' /\ UNCHANGED <<initVars, opsVars, proxyVars, tsVars>>
  \/ \E c \in Calls : StoreWrite(c) /\ Healthy' /\ UNCHANGED <<initVars, opsVars, proxyVars, tsVars>>
  \/ \E c \in Calls : MethodDone(c) /\ Healthy' /\ UNCHANGED <<initVars, opsVars, proxyVars, tsVars>>

SpecRace == InitRace /\ [][NextRace]_vars

\* ---------------------------------------------------- properties: the guard
\* what a quota report says, in the words of the claims
ReportsAtLeast(q, t) == \E n \in q : n >= t
ReportsBelow(q, t) == \E n \in q : n < t

FrameIds == {cd \in Calls \X (1..MaxDepth) : cd[2] <= Depth(cd[1])}
FrameAt(cd) == calls[cd[1]].frames[cd[2]]
Innermost(cd) == cd[2] = Depth(cd[1])

\* the frames of the fast path: nothing read, written or initialised, the
\* operation invoked once on the frame's own session, and no re-dispatch
FastPathFrames ==
  \A cd \in FrameIds :
    LET f == FrameAt(cd) IN
    ReportsAtLeast(f.first, 10) =>
      /\ f.reads = 0 /\ f.wrote = <<>> /\ f.stored = <<>>
      /\ f.lw = 0 /\ f.hw = 0 /\ f.inits = 0
      /\ f.opOn = <<f.self>>
      /\ Innermost(cd)

\* the steps of the fast path: the one that receives the report and every
\* later one of that guard invocation leave the handle and both pointers alone
FastPathSteps ==
  \A c \in Calls :
    (Running(c) /\ Depth(c) > 0
       /\ ReportsAtLeast(calls'[c].frames[Depth(c)].first, 10)) =>
      UNCHANGED <<sunoApi, activeSunoLicense, storeActive>>

\* C1: a guard invocation whose quota query on its own session reports
\* credits_left >= 10 reads no candidate list, issues and completes no store
\* write, initialises no session, leaves activeSunoLicense, the handle sunoApi
\* and the stored pointer unchanged, does not re-dispatch, and has invoked the
\* wrapped operation exactly once, on its own session.
GuardFastPath == []FastPathFrames /\ [][FastPathSteps]_vars

GuardFastPathReached ==
  \E cd \in FrameIds :
    /\ ReportsAtLeast(FrameAt(cd).first, 10)
    /\ FrameAt(cd).opOn = <<FrameAt(cd).self>>
    /\ calls[cd[1]].st = "returned"

\* C2: in a guard invocation whose own session reported credits_left < 10, a
\* candidate that reports credits_left >= 10 is the last one examined, it and
\* the candidates before it (and none after it) were initialised,
\* setSunoActiveLicense was called once with its account and key, the guard
\* itself never runs the operation, and the operation is re-dispatched only
\* once that write has completed with this candidate persisted.
GuardFailover ==
  \A cd \in FrameIds :
    LET f == FrameAt(cd) IN
    ReportsBelow(f.first, 10) =>
      \A j \in 1..Len(f.reports) :
        ReportsAtLeast(f.reports[j], 10) =>
          /\ j = Len(f.reports)
          /\ f.inits = j
          /\ f.wrote = << <<j, j>> >>
          /\ f.opOn = <<>>
          /\ f.pc \in {"setActive", "dispatch"}
          /\ ~Innermost(cd) => (f.pc = "dispatch" /\ f.stored = <<j>>)
          /\ f.pc = "dispatch" => ~Innermost(cd)

GuardFailoverReached ==
  \E cd \in FrameIds :
    LET f == FrameAt(cd) IN
    /\ ReportsBelow(f.first, 10)
    /\ Len(f.reports) = 2
    /\ ReportsBelow(f.reports[1], 10)
    /\ ReportsAtLeast(f.reports[2], 10)
    /\ f.stored = <<2>>
    /\ calls[cd[1]].st = "returned"

\* C3: in a guard invocation whose own session reported credits_left < 10 and
\* whose candidate list (possibly empty) has been tried to the end with no
\* report of credits_left >= 10, no store write was issued, the guard has not
\* thrown, and the wrapped operation has been invoked exactly once, on the
\* guard's own session; the call settles as that invocation does.
GuardDegraded ==
  \A cd \in FrameIds :
    LET f == FrameAt(cd) IN
    ( /\ ReportsBelow(f.first, 10)
      /\ f.pc \notin {"credits", "licKeys"}
      /\ Len(f.reports) = f.n
      /\ \A j \in 1..Len(f.reports) : ~ReportsAtLeast(f.reports[j], 10) ) =>
      /\ f.pc = "method"
      /\ f.opOn = <<f.self>>
      /\ f.wrote = <<>> /\ f.stored = <<>> /\ f.lw = 0
      /\ Innermost(cd)

GuardDegradedReached ==
  \E cd \in FrameIds :
    LET f == FrameAt(cd) IN
    /\ ReportsBelow(f.first, 10)
    /\ f.n = 2 /\ Len(f.reports) = 2
    /\ \A j \in 1..2 : ~ReportsAtLeast(f.reports[j], 10)
    /\ f.pc = "method"
    /\ calls[cd[1]].st \in {"returned", "threw"}

\* C4: when the token renewal or the billing request of the guard's own quota
\* query throws, the call has thrown at that point: no frame of the call has
\* invoked the operation, and this guard invocation fetched no list,
\* initialised no session and wrote neither pointer.
QuotaFailurePropagates ==
  \A cd \in FrameIds :
    LET f == FrameAt(cd) IN
    f.failed =>
      /\ calls[cd[1]].st = "threw"
      /\ f.pc = "credits" /\ Innermost(cd)
      /\ \A d \in 1..Depth(cd[1]) : calls[cd[1]].frames[d].opOn = <<>>
      /\ calls[cd[1]].raw = <<>>
      /\ f.reads = 0 /\ f.inits = 0 /\ f.hw = 0
      /\ f.wrote = <<>> /\ f.stored = <<>> /\ f.lw = 0

QuotaFailureReached ==
  \E cd \in FrameIds : FrameAt(cd).failed /\ calls[cd[1]].st = "threw"

\* C5: a billing response without the remaining-credits field never sends the
\* guard down the fast path (the operation run on its own session with no
\* candidate list read).
MissingCreditsNotSufficient ==
  \A cd \in FrameIds :
    LET f == FrameAt(cd) IN
    (f.pc # "credits" /\ ~f.failed /\ f.first = Missing) =>
      ~(f.pc = "method" /\ f.reads = 0)

\* C10: between the entry and the return of one top-level call,
\* setSunoActiveLicense is called at most once, the re-dispatched guard
\* invocations included.
AtMostOnePromotion ==
  \A c \in Calls :
    Cardinality({d \in 1..Depth(c) : calls[c].frames[d].wrote # <<>>}) <= 1

\* C11: a call of generateLyrics or extendAudio on an initialised session runs
\* unguarded: it receives no billing report, reads no candidate list,
\* initialises no session and writes no active credential pointer.
LyricsAndExtendUnguarded ==
  \A cd \in FrameIds :
    LET f == FrameAt(cd) IN
    calls[cd[1]].op \in {"generateLyrics", "extendAudio"} =>
      /\ f.first = Missing /\ f.reports = <<>>
      /\ f.reads = 0 /\ f.inits = 0
      /\ f.wrote = <<>> /\ f.lw = 0

\* C15: change_Account (threshold 44), like licenseCheckDecorator, invokes
\* the guarded operation on the alternate session only if the quota query on
\* that session reported credits_left >= 44; otherwise it runs it on the
\* original session.
AlternateOnlyIfViable ==
  \A j \in 1..Len(ts.ranOn) :
    ts.ranOn[j] = "alternate" => ReportsAtLeast(ts.credits2, TsThreshold)

\* C22: a candidate whose session initialisation or quota query fails is
\* passed over: the call does not throw at the initialisation or at the quota
\* query of a candidate.
CandidateFailureSkipped ==
  \A c \in Calls :
    (calls[c].st = "threw" /\ Depth(c) > 0) =>
      Top(c).pc \notin {"newSunoApi", "candCredits"}

\* the last quota report a guard invocation received from a candidate
LastReport(f) == f.reports[Len(f.reports)]

\* a guard invocation that waits for its store write has just received a
\* report of credits_left >= 10 from the candidate it writes
WriteFollowsViableReport ==
  \A cd \in FrameIds :
    LET f == FrameAt(cd) IN
    (f.wrote # <<>> \/ f.stored # <<>>) =>
      /\ Len(f.reports) = f.i /\ f.i > 0
      /\ ReportsAtLeast(LastReport(f), 10)
      /\ f.wrote = << <<f.i, f.i>> >>
      /\ f.cur.cred = f.i
      /\ f.stored \in {<<>>, <<f.i>>}

\* a step that completes a store write, or changes the stored pointer, is the
\* step of a guard invocation at its setSunoActiveLicense call
WriteOnlyByGuard ==
  ( \/ storeActive' # storeActive
    \/ \E c \in Calls :
         /\ Running(c)
         /\ \E d \in 1..Depth(c) :
              calls'[c].frames[d].stored # calls[c].frames[d].stored ) =>
    \E c \in Calls :
      /\ Running(c) /\ Depth(c) > 0 /\ calls[c].op \in Decorated
      /\ Top(c).pc = "setActive"
      /\ ReportsAtLeast(LastReport(Top(c)), 10)
      /\ storeActive' = Top(c).i

\* C24: the stored active pointer is written only by a guard invocation at
\* its setSunoActiveLicense call, directly after the quota query on the
\* candidate it persists reported credits_left >= 10; calls of unguarded
\* operations, quota queries and session initialisations leave it alone.
StoreWrittenOnlyAfterViable == []WriteFollowsViableReport /\ [][WriteOnlyByGuard]_vars

StoreWrittenOnlyAfterViableReached ==
  \E cd \in FrameIds :
    LET f == FrameAt(cd) IN
    /\ f.i = 1 /\ f.reports = <<Num(Threshold)>>
    /\ f.stored = <<1>> /\ storeActive = 1
    /\ f.pc = "dispatch"

\* C25: whenever no guarded call is in progress, the handle sunoApi is a
\* session initialised with the credential activeSunoLicense names.
HandleMatchesActiveLicense ==
  (\A c \in Calls : calls[c].st \in {"idle", "returned"}) =>
    sunoApi.cred = activeSunoLicense

\* C29: one top-level call initialises at most one session per candidate of
\* the store list, the guard invocations of its re-dispatches included.
OneInitPerCandidate ==
  \A c \in Calls :
    \A cand \in 1..NumCands :
      Cardinality({d \in 1..Depth(c) : calls[c].frames[d].inits >= cand}) <= 1

\* C26: under any interleaving of concurrent guarded calls, the operation a
\* guard invocation re-dispatches after promoting a candidate is invoked on
\* a session initialised with the key of the candidate it promoted.
DispatchOnOwnCandidate ==
  \A cd \in FrameIds :
    LET f == FrameAt(cd) IN
    (f.pc = "dispatch" /\ ~Innermost(cd)) =>
      calls[cd[1]].frames[cd[2] + 1].self.cred = f.promoted

\* C27: once every concurrently started guarded call has returned,
\* activeSunoLicense names the credential the store holds as active.
PointersAgreeAfterRace ==
  (\A c \in Calls : calls[c].st = "returned") =>
    activeSunoLicense = storeActive

\* ------------------------------------------- properties: session, operations
\* C6: a session init has just returned to its caller has clerkVersion, sid
\* and currentToken all set and non-empty.
InitAllOrNothing ==
  (ipc = "ready" /\ renewals = 0) =>
    /\ Truthy(ses.clerkVersion)
    /\ Truthy(ses.sid)
    /\ Truthy(ses.currentToken)

\* C16: while init runs, the requests sent are a prefix of version lookup,
\* session-id request, token renewal; the session-id request is sent only with
\* the version set and the renewal only with the session id set; a failed init
\* failed at the last request it sent, and init returns only after all three.
InitOrder ==
  renewals = 0 =>
    /\ \E k \in 0..3 : reqs = SubSeq(<<"version", "client", "tokens">>, 1, k)
    /\ Len(reqs) >= 2 => Truthy(ses.clerkVersion)
    /\ Len(reqs) >= 3 => Truthy(ses.sid)
    /\ (ipc = "failed" /\ Len(reqs) = 1) => ~Truthy(ses.clerkVersion)
    /\ (ipc = "failed" /\ Len(reqs) = 2) => ~Truthy(ses.sid)
    /\ ipc = "ready" => Len(reqs) = 3

InitOrderReached ==
  /\ renewals = 0 /\ ipc = "failed"
  /\ reqs = <<"version", "client">>
  /\ Truthy(ses.clerkVersion)

\* C17: a keepAlive that completed successfully received a renewal response
\* carrying a token.
RenewalNeedsToken == ka.out = "ok" => Truthy(ka.resp)

\* a session without a session id has sent no renewal request and has none
\* in flight
NoSidNoRenewal ==
  ~Truthy(ses.sid) =>
    /\ \A j \in 1..Len(reqs) : reqs[j] # "tokens"
    /\ ipc \notin {"token", "renewing", "sleeping"}

\* keepAlive called on a session without a session id throws at once
KeepAliveWithoutSid ==
  (renewals' = renewals + 1 /\ ~Truthy(ses.sid)) =>
    /\ ka'.out = "threw"
    /\ reqs' = reqs /\ ses' = ses /\ ipc' = ipc

\* C18: keepAlive on a session whose session id was never established throws
\* without sending the renewal request and leaves currentToken unchanged.
KeepAliveNeedsSid == []NoSidNoRenewal /\ [][KeepAliveWithoutSid]_vars

KeepAliveNeedsSidReached ==
  /\ renewals > 0 /\ ~Truthy(ses.sid)
  /\ ka.out = "threw"
  /\ ses.currentToken = Undefined

\* C19: during the delay of a blocking renewal on an initialised session the
\* session already holds the renewed token.
BlockingRenewalTokenFirst ==
  (ipc = "sleeping" /\ ka.home = "ready") => ses.currentToken = ka.resp

\* C7: generateSongs with wait_audio has returned or failed no later than the
\* poll window plus one poll interval (6 s) after the poll started.
PollerTimeoutSafety ==
  (startTime >= 0 /\ opc \in {"done", "threw"}) =>
    now - startTime <= PollWindowMs + 6000

\* every submitted job is listed, each as complete or streaming
ShowsAllComplete(snapshot) ==
  /\ Len(snapshot) = Len(clips)
  /\ \A i \in 1..Len(snapshot) : snapshot[i] \in {"complete", "streaming"}

\* C8: once a status fetch of the poll has shown every submitted job complete
\* or streaming, generateSongs has returned that snapshot, one entry per job,
\* and that fetch is the last request it sent: no sleep, renewal or fetch
\* follows it.
PollerEarlyCompletion ==
  (startTime >= 0 /\ seen # <<>> /\ ShowsAllComplete(seen[1])) =>
    /\ opc = "done"
    /\ result = seen[1]
    /\ Len(result) = Len(clips)
    /\ prev = "feed"

PollerEarlyCompletionReached ==
  /\ opc = "done"
  /\ result = <<"complete", "complete">>
  /\ Len(clips) = 2
  /\ Len(lastResponse) = 2
  /\ now - startTime < PollWindowMs

\* C13: generateLyrics returns only a status answer that says complete, each
\* status request after the first follows the previous answer by exactly two
\* seconds, and while the latest answer is not complete the operation is
\* still polling (or a request has thrown), however late it is.
LyricsPolling ==
  op.name = "generateLyrics" =>
    /\ opc = "done" => (result = <<"complete">> /\ seen = << <<"complete">> >>)
    /\ polls >= 2 => pollGap = 2000
    /\ (seen # <<>> /\ seen[1] # <<"complete">>) =>
         opc \in {"lyrics_sleep", "lyrics_get", "threw"}

LyricsPollingReached ==
  /\ op.name = "generateLyrics" /\ opc = "lyrics_sleep"
  /\ seen = << <<"error">> >>
  /\ pollGap = 2000
  /\ now > PollWindowMs

\* C14: a submission that does not wait has sent at most one submission
\* request and no feed fetch, and what it returns is one entry per clip of the
\* submission response with the status reported there.
SubmitWithoutWait ==
  (op.name \in {"generate", "custom_generate"} /\ ~op.wait /\ opc # "idle") =>
    /\ ~fed
    /\ submits <= 1
    /\ opc = "done" =>
         /\ submits = 1
         /\ Len(result) = Len(clips)
         /\ \A i \in 1..Len(clips) : result[i] = clips[i]

SubmitWithoutWaitReached ==
  /\ op = [name |-> "generate", wait |-> FALSE]
  /\ opc = "done"
  /\ result = <<"streaming", "error">>

\* some jobs are streaming or complete and at least one other is not
Mixed(response) ==
  /\ \E i \in 1..Len(response) : response[i] \in {"streaming", "complete"}
  /\ \E i \in 1..Len(response) : response[i] \notin {"streaming", "complete"}

\* C20: in the wait_audio poll, a fetch in which every job is in error ends
\* the poll and is returned as it is; after a fetch in which some jobs are
\* streaming or complete and another is in error or pending, generateSongs
\* has returned only if the poll window has elapsed, and then it returned
\* that batch at the loop head.
WholeBatch ==
  (startTime >= 0 /\ seen # <<>>) =>
    /\ (seen[1] # <<>> /\ allError(seen[1])) =>
         (opc = "done" /\ result = seen[1] /\ prev = "feed")
    /\ (Mixed(seen[1]) /\ opc = "done") =>
         /\ now - startTime >= PollWindowMs
         /\ result = seen[1]
         /\ prev = "renewWait"

WholeBatchReached ==
  /\ opc = "done" /\ startTime >= 0
  /\ result = <<"complete", "error">>
  /\ now - startTime >= PollWindowMs

\* a fetch that ends the poll at line 185
Terminal(response) == allCompleted(response) \/ allError(response)

\* C21: a wait_audio poll that has returned has performed a status fetch, and
\* when its latest fetch was not terminal it returned, with the poll window
\* elapsed, the snapshot of that latest fetch.
PollerWindowReturn ==
  (startTime >= 0 /\ opc = "done") =>
    /\ fed /\ seen # <<>>
    /\ ~Terminal(seen[1]) =>
         /\ result = seen[1]
         /\ result = lastResponse
         /\ now - startTime >= PollWindowMs

PollerWindowReturnReached ==
  /\ startTime >= 0 /\ opc = "done"
  /\ result = <<"queued", "streaming">>
  /\ now - startTime >= PollWindowMs

\* C28: a wait_audio poll that has returned before the poll window elapsed
\* returned one entry for every submitted job, all of them streaming or
\* complete or all of them in error.
EarlyReturnCoversEveryJob ==
  (startTime >= 0 /\ opc = "done" /\ now - startTime < PollWindowMs) =>
    /\ Len(result) = Len(clips)
    /\ Terminal(result)

\* generateSongs with wait_audio, and generateLyrics, which always polls
WaitsForCompletion == op.wait \/ op.name = "generateLyrics"

\* C9: the request of a quota-consuming operation directly follows a
\* non-blocking renewal, and an operation that does not wait for completion
\* returns only after a blocking renewal that followed its request.
RenewalDiscipline ==
  /\ reqPrev # "none" => reqPrev = "renew"
  /\ (opc = "done" /\ ~WaitsForCompletion) => renewedAfter

\* ------------------------------------------------ properties: route handlers
\* C12: no exception escapes a handler and a handler sends at most one
\* response; once the core operation has settled and the handler has ended it
\* has sent exactly one, with status 200, and when the core operation or the
\* await of the session threw that response is the error envelope.
ProxyBoundary ==
  /\ ~handler.escaped
  /\ Len(handler.sent) <= 1
  /\ handler.pc = "end" =>
       /\ Len(handler.sent) = 1
       /\ handler.sent[1].status = 200
       /\ handler.threw => handler.sent[1].body = "error"

ProxyBoundaryReached ==
  /\ handler.pc = "end"
  /\ handler.core = "threw"
  /\ handler.sent = <<[status |-> 200, body |-> "error"]>>

\* the endpoints that forward to one core operation
CoreRoutes == {"generate", "custom_generate", "extend_audio", "generate_lyrics",
               "get", "get_limit"}

\* C23: on each of /api/generate, /api/custom_generate, /api/extend_audio,
\* /api/generate_lyrics, /api/get and /api/get_limit a well-formed request to
\* an initialised session has had its core operation invoked by the time the
\* response is sent.
CoreInvokedBeforeResponse ==
  ( /\ handler.pc = "end" /\ boot = "resolved"
    /\ handler.shape = "ok" /\ handler.route \in CoreRoutes ) =>
    handler.core # "none"

\* after a failed start-up no handler reaches its core operation, and a
\* handler that has ended has sent the error envelope and nothing else
FailedStartupAnswers ==
  boot # "resolved" =>
    /\ handler.core = "none" /\ handler.pc # "core"
    /\ handler.pc = "end" => handler.sent = <<[status |-> 200, body |-> "error"]>>

\* C30: when start-up initialisation failed, its outcome never changes (no
\* request re-attempts it), no core operation is invoked by any request on any
\* endpoint, and every response sent is the error envelope.
StartupFailureIsFinal == []FailedStartupAnswers /\ [][boot' = boot]_vars

StartupFailureIsFinalReached ==
  /\ boot = "rejected" /\ served >= 2
  /\ handler.route = "generate" /\ handler.shape = "ok"
  /\ handler.pc = "end" /\ handler.threw
  /\ handler.sent = <<[status |-> 200, body |-> "error"]>>
====
